---- MODULE Spec2Model ----
(***************************************************************************)
(* Model of crates/egui/src/widgets/skeleton.rs: the Skeleton widget       *)
(* (Skeleton::ui, three shape types) and the default HasSkeleton::fill_ui. *)
(*                                                                         *)
(* Floating point values are modelled as exact rationals [n, d] in lowest  *)
(* terms with d > 0, extended by the three non-finite IEEE values          *)
(* NaN = 0/0, +inf = 1/0, -inf = -1/0.  Rounding error is not modelled.    *)
(***************************************************************************)
EXTENDS Integers, Sequences, FiniteSets

VARIABLES
    skeleton,        \* the Skeleton value: base_color, highlight_color, animation_duration, shape_type
    time,            \* ui.input().time, the host clock (seconds)
    available_rect,  \* the rect handed to the last operation (Rect::ZERO when it takes none)
    painted,         \* the shapes added to the painter by the last operation
    response,        \* <<>> or <<[rect, sense]>>: what ui.allocate_rect was given
    shimmer,         \* locals of the last operation's Rectangle branch: divisor, phase, x
    panicked,        \* TRUE once a panic has unwound the frame
    op               \* the last operation: "new", "configure", "ui", "fill_ui"

vars == <<skeleton, time, available_rect, painted, response, shimmer, panicked, op>>

---------------------------------------------------------------------------
(* Bounds of the model *)

\* time samples are the quarter seconds k/4, k in -MaxTick..MaxTick
MaxTick == 6
\* a frame advances the clock by 1..MaxDt quarter seconds
MaxDt == 3
\* fill_ui is given rects of height 4k, k in -MaxFillH..MaxFillH
MaxFillH == 10
\* periodicity is examined for shifts of -MaxShift..MaxShift periods
MaxShift == 2

---------------------------------------------------------------------------
(* f32 arithmetic *)

Abs(i) == IF i < 0 THEN -i ELSE i

Sgn(i) == IF i < 0 THEN -1 ELSE IF i = 0 THEN 0 ELSE 1

RECURSIVE Gcd(_, _)
Gcd(a, b) == IF b = 0 THEN a ELSE Gcd(b, a % b)

\* the finite value n/d (d # 0) in lowest terms
R(n, d) ==
    LET g == Gcd(Abs(n), Abs(d))
    IN  [n |-> Sgn(d) * Sgn(n) * (Abs(n) \div g), d |-> Abs(d) \div g]

I(i) == [n |-> i, d |-> 1]

NaN == [n |-> 0, d |-> 0]

IsNaN(a) == a.d = 0 /\ a.n = 0

IsFinite(a) == a.d # 0

\* a + b; a non-finite operand can only be NaN here
FAdd(a, b) ==
    IF ~IsFinite(a) \/ ~IsFinite(b) THEN NaN
    ELSE R(a.n * b.d + b.n * a.d, a.d * b.d)

FSub(a, b) ==
    IF ~IsFinite(a) \/ ~IsFinite(b) THEN NaN
    ELSE R(a.n * b.d - b.n * a.d, a.d * b.d)

FMul(a, b) ==
    IF ~IsFinite(a) \/ ~IsFinite(b) THEN NaN
    ELSE R(a.n * b.n, a.d * b.d)

\* a / b: x/0 is +-inf, 0/0 is NaN
FDiv(a, b) ==
    IF ~IsFinite(a) \/ ~IsFinite(b) THEN NaN
    ELSE IF b.n = 0 THEN [n |-> Sgn(a.n), d |-> 0]
    ELSE R(a.n * b.d, a.d * b.n)

\* the integer part of a finite value, rounding toward zero
Trunc(a) == Sgn(a.n) * (Abs(a.n) \div a.d)

\* a % b on floats: the remainder of the truncated division, with the sign
\* of a; NaN when a is not finite or b is zero
FRem(a, b) ==
    IF ~IsFinite(a) \/ ~IsFinite(b) \/ b.n = 0 THEN NaN
    ELSE FSub(a, FMul(b, I(Trunc(FDiv(a, b)))))

\* a < b, a <= b: FALSE when either side is NaN
FLt(a, b) == IsFinite(a) /\ IsFinite(b) /\ a.n * b.d < b.n * a.d

FLe(a, b) == IsFinite(a) /\ IsFinite(b) /\ a.n * b.d <= b.n * a.d

\* f32::min
FMin(a, b) == IF IsNaN(a) THEN b ELSE IF IsNaN(b) THEN a ELSE IF FLt(b, a) THEN b ELSE a

\* f32::clamp panics unless min <= max
ClampPanics(lo, hi) == ~FLe(lo, hi)

\* f32::clamp when it does not panic; NaN stays NaN
FClamp(x, lo, hi) == IF FLt(x, lo) THEN lo ELSE IF FLt(hi, x) THEN hi ELSE x

---------------------------------------------------------------------------
(* Pos2, Vec2, Rect *)

Pos2(x, y) == [x |-> x, y |-> y]

RectLeft(r) == r.min.x
RectRight(r) == r.max.x
RectTop(r) == r.min.y
RectBottom(r) == r.max.y
RectWidth(r) == FSub(r.max.x, r.min.x)
RectHeight(r) == FSub(r.max.y, r.min.y)

RectCenter(r) ==
    Pos2(FMul(R(1, 2), FAdd(r.min.x, r.max.x)), FMul(R(1, 2), FAdd(r.min.y, r.max.y)))

RectFromCenterSize(c, w, h) ==
    [min |-> Pos2(FSub(c.x, FMul(R(1, 2), w)), FSub(c.y, FMul(R(1, 2), h))),
     max |-> Pos2(FAdd(c.x, FMul(R(1, 2), w)), FAdd(c.y, FMul(R(1, 2), h)))]

RectFromMinSize(p, w, h) ==
    [min |-> p, max |-> Pos2(FAdd(p.x, w), FAdd(p.y, h))]

RectLTWH(l, t, w, h) == RectFromMinSize(Pos2(l, t), w, h)

---------------------------------------------------------------------------
(* Skeleton *)

DefaultBaseGray == 200
DefaultHighlightGray == 230
LineGray == 220
CornerRadius == 2
line_height == 16
gap == 4

Color32FromGray(l) == [r |-> l, g |-> l, b |-> l]

SkeletonShapeType == {"Rectangle", "Square", "Circle"}

\* impl Default for Skeleton; Skeleton::new
SkeletonDefault ==
    [base_color         |-> Color32FromGray(DefaultBaseGray),
     highlight_color    |-> Color32FromGray(DefaultHighlightGray),
     animation_duration |-> R(3, 2),
     shape_type         |-> "Rectangle"]

Vertex(x, y, color) == [pos |-> Pos2(x, y), color |-> color]

SenseHover == "hover"

\* ui.allocate_rect(rect, Sense::hover())
AllocateRect(rect) == <<[rect |-> rect, sense |-> SenseHover]>>

\* let shimmer_phase = (time / self.animation_duration) % 1.0;
ShimmerPhase(self, t) == FRem(FDiv(t, self.animation_duration), I(1))

\* a slip in the band width: a quarter of the region instead of a fifth
ShimmerWidthQuarter(rect) == FMul(R(1, 4), RectWidth(rect))

\* let shimmer_width = 0.2 * available_rect.width();
ShimmerWidth(rect) == FMul(R(1, 5), RectWidth(rect))

\* let shimmer_x = left + shimmer_phase * (width + shimmer_width) - shimmer_width;
ShimmerX(rect, shimmer_phase) ==
    FSub(FAdd(RectLeft(rect),
              FMul(shimmer_phase, FAdd(RectWidth(rect), ShimmerWidth(rect)))),
         ShimmerWidth(rect))

\* the eight vertices pushed to the mesh, in push order
MeshVertices(self, rect, shimmer_x) ==
    LET x0 == RectLeft(rect)
        x1 == FClamp(shimmer_x, RectLeft(rect), RectRight(rect))
        x2 == FClamp(FAdd(shimmer_x, ShimmerWidth(rect)), RectLeft(rect), RectRight(rect))
        x3 == RectRight(rect)
        top == RectTop(rect)
        bottom == RectBottom(rect)
    IN  << Vertex(x0, top, self.base_color),
           Vertex(x1, top, self.base_color),
           Vertex(x2, top, self.highlight_color),
           Vertex(x3, top, self.base_color),
           Vertex(x0, bottom, self.base_color),
           Vertex(x1, bottom, self.base_color),
           Vertex(x2, bottom, self.highlight_color),
           Vertex(x3, bottom, self.base_color) >>

\* the three extend_from_slice calls; the indices are 0-based
MeshIndices ==
    <<0, 1, 5, 0, 5, 4>> \o <<1, 2, 6, 1, 6, 5>> \o <<2, 3, 7, 2, 7, 6>>

NoShimmer == [divisor |-> NaN, phase |-> NaN, x |-> NaN]

\* SkeletonShapeType::Rectangle => { ... }
UiRectangle(self, rect, t) ==
    LET shimmer_phase == ShimmerPhase(self, t)
        shimmer_x == ShimmerX(rect, shimmer_phase)
        locals == [divisor |-> self.animation_duration, phase |-> shimmer_phase, x |-> shimmer_x]
    IN  IF ClampPanics(RectLeft(rect), RectRight(rect))
        THEN [painted |-> <<>>, response |-> <<>>, shimmer |-> locals, panicked |-> TRUE]
        ELSE [painted  |-> << [kind     |-> "Mesh",
                               vertices |-> MeshVertices(self, rect, shimmer_x),
                               indices  |-> MeshIndices] >>,
              response |-> AllocateRect(rect),
              shimmer  |-> locals,
              panicked |-> FALSE]

\* SkeletonShapeType::Square => { ... }
UiSquare(self, rect) ==
    LET side == FMin(RectWidth(rect), RectHeight(rect))
    IN  [painted  |-> << [kind     |-> "Rect",
                          rect     |-> RectFromCenterSize(RectCenter(rect), side, side),
                          rounding |-> I(CornerRadius),
                          fill     |-> self.base_color] >>,
         response |-> AllocateRect(rect),
         shimmer  |-> NoShimmer,
         panicked |-> FALSE]

\* SkeletonShapeType::Circle => { ... }
UiCircle(self, rect) ==
    LET radius == FMul(R(1, 2), FMin(RectWidth(rect), RectHeight(rect)))
    IN  [painted  |-> << [kind   |-> "Circle",
                          center |-> RectCenter(rect),
                          radius |-> radius,
                          fill   |-> self.base_color] >>,
         response |-> AllocateRect(rect),
         shimmer  |-> NoShimmer,
         panicked |-> FALSE]

\* impl Widget for Skeleton: fn ui(self, ui)
SkeletonUi(self, rect, t) ==
    CASE self.shape_type = "Rectangle" -> UiRectangle(self, rect, t)
      [] self.shape_type = "Square"    -> UiSquare(self, rect)
      [] self.shape_type = "Circle"    -> UiCircle(self, rect)

---------------------------------------------------------------------------
(* HasSkeleton *)

\* a slip in the loop test: a line is emitted as soon as its top is above
\* the bottom edge, so the last one may be partial
RECURSIVE FillLinesPartial(_, _)
FillLinesPartial(rect, y) ==
    IF FLt(y, RectBottom(rect))
    THEN << [kind     |-> "Rect",
             rect     |-> RectFromMinSize(Pos2(RectLeft(rect), y), RectWidth(rect), I(line_height)),
             rounding |-> I(CornerRadius),
             fill     |-> Color32FromGray(LineGray)] >>
         \o FillLinesPartial(rect, FAdd(y, FAdd(I(line_height), I(gap))))
    ELSE <<>>

\* the while loop of fill_ui, from the line whose top is y
RECURSIVE FillLines(_, _)
FillLines(rect, y) ==
    IF FLe(FAdd(y, I(line_height)), RectBottom(rect))
    THEN << [kind     |-> "Rect",
             rect     |-> RectFromMinSize(Pos2(RectLeft(rect), y), RectWidth(rect), I(line_height)),
             rounding |-> I(CornerRadius),
             fill     |-> Color32FromGray(LineGray)] >>
         \o FillLines(rect, FAdd(y, FAdd(I(line_height), I(gap))))
    ELSE <<>>

\* HasSkeleton::fill_ui (default method; ExtFrame does not override it)
DefaultFillUi(rect) == << [kind |-> "Vec", shapes |-> FillLines(rect, RectTop(rect))] >>

---------------------------------------------------------------------------
(* The host: inputs and frames *)

Tick(k) == R(k, 4)

Times == {Tick(k) : k \in -MaxTick .. MaxTick}

Durations == {R(3, 2), I(1), I(0), R(-3, 2)}

\* the regions the layout hands to Skeleton::ui; the last three are degenerate
Regions ==
    { RectLTWH(I(0), I(0), I(100), I(20)),
      RectLTWH(I(10), I(5), I(40), I(40)),
      RectLTWH(I(0), I(0), I(30), I(60)),
      RectLTWH(I(0), I(0), I(0), I(20)),
      RectLTWH(I(10), I(5), I(40), I(0)),
      RectLTWH(I(0), I(0), I(-20), I(20)) }

\* the rects fill_ui is called with
FillRects ==
    { RectLTWH(I(0), I(10), I(300), I(4 * h)) : h \in -MaxFillH .. MaxFillH }
    \cup { RectLTWH(I(0), I(0), I(0), I(36)),
           RectLTWH(I(5), I(0), I(300), R(71, 2)),
           RectLTWH(I(5), I(0), I(300), I(56)),
           RectLTWH(I(5), I(0), I(300), I(150)) }

RectZero == RectLTWH(I(0), I(0), I(0), I(0))

Init ==
    /\ skeleton = SkeletonDefault
    /\ time \in Times
    /\ available_rect = RectZero
    /\ painted = <<>>
    /\ response = <<>>
    /\ shimmer = NoShimmer
    /\ panicked = FALSE
    /\ op = "new"

\* Skeleton::new()
SkeletonNew ==
    /\ ~panicked
    /\ skeleton' = SkeletonDefault
    /\ available_rect' = RectZero
    /\ painted' = <<>>
    /\ response' = <<>>
    /\ shimmer' = NoShimmer
    /\ op' = "new"
    /\ UNCHANGED <<time, panicked>>

\* the pub fields animation_duration and shape_type are set by the caller
Configure(d, s) ==
    /\ ~panicked
    /\ skeleton' = [skeleton EXCEPT !.animation_duration = d, !.shape_type = s]
    /\ available_rect' = RectZero
    /\ painted' = <<>>
    /\ response' = <<>>
    /\ shimmer' = NoShimmer
    /\ op' = "configure"
    /\ UNCHANGED <<time, panicked>>

\* one frame: the host advances its clock and calls Skeleton::ui on rect
Ui(rect, dt) ==
    /\ ~panicked
    /\ FLe(FAdd(time, Tick(dt)), Tick(MaxTick))
    /\ time' = FAdd(time, Tick(dt))
    /\ available_rect' = rect
    /\ \E out \in {SkeletonUi(skeleton, rect, time')} :
           /\ painted' = out.painted
           /\ response' = out.response
           /\ shimmer' = out.shimmer
           /\ panicked' = out.panicked
    /\ op' = "ui"
    /\ UNCHANGED skeleton

\* <ExtFrame as HasSkeleton>::fill_ui(&frame, ui, rect)
FillUi(rect) ==
    /\ ~panicked
    /\ available_rect' = rect
    /\ painted' = DefaultFillUi(rect)
    /\ response' = AllocateRect(rect)
    /\ shimmer' = NoShimmer
    /\ op' = "fill_ui"
    /\ UNCHANGED <<skeleton, time, panicked>>

Next ==
    \/ SkeletonNew
    \/ \E d \in Durations, s \in SkeletonShapeType : Configure(d, s)
    \/ \E rect \in Regions, dt \in 1 .. MaxDt : Ui(rect, dt)
    \/ \E rect \in FillRects : FillUi(rect)

Spec == Init /\ [][Next]_vars

---------------------------------------------------------------------------
(* Vocabulary of the properties *)

Zero == I(0)
One == I(1)

\* Skeleton::ui has just run, in shimmer mode, and returned
Shimmered == op = "ui" /\ skeleton.shape_type = "Rectangle" /\ ~panicked

Degenerate(r) == ~FLt(Zero, RectWidth(r)) \/ ~FLt(Zero, RectHeight(r))

InRegion(p, r) ==
    /\ FLe(RectLeft(r), p.x) /\ FLe(p.x, RectRight(r))
    /\ FLe(RectTop(r), p.y) /\ FLe(p.y, RectBottom(r))

\* every coordinate of a primitive
Corners(shape) ==
    CASE shape.kind = "Mesh"   -> {shape.vertices[i].pos : i \in 1 .. Len(shape.vertices)}
      [] shape.kind = "Rect"   -> {shape.rect.min, shape.rect.max,
                                   Pos2(shape.rect.min.x, shape.rect.max.y),
                                   Pos2(shape.rect.max.x, shape.rect.min.y)}
      [] shape.kind = "Circle" -> {Pos2(FSub(shape.center.x, shape.radius), shape.center.y),
                                   Pos2(FAdd(shape.center.x, shape.radius), shape.center.y),
                                   Pos2(shape.center.x, FSub(shape.center.y, shape.radius)),
                                   Pos2(shape.center.x, FAdd(shape.center.y, shape.radius))}

\* the vertex a 0-based mesh index names
VertexAt(mesh, i) == mesh.vertices[i + 1]

\* the vertices of quad q (0, 1, 2): those its two triangles name
QuadVertices(mesh, q) == {VertexAt(mesh, mesh.indices[j]) : j \in 6 * q + 1 .. 6 * q + 6}

\* twice the signed area of the triangle a, b, c
Cross(a, b, c) ==
    FSub(FMul(FSub(b.x, a.x), FSub(c.y, a.y)), FMul(FSub(c.x, a.x), FSub(b.y, a.y)))

\* triangle t (0..5) of the mesh covers some area
TriangleHasArea(mesh, t) ==
    LET a == VertexAt(mesh, mesh.indices[3 * t + 1]).pos
        b == VertexAt(mesh, mesh.indices[3 * t + 2]).pos
        c == VertexAt(mesh, mesh.indices[3 * t + 3]).pos
    IN  Cross(a, b, c) # Zero

\* some triangle with area has a corner of the highlight colour: the
\* interpolated fill shows highlight somewhere in the region
HighlightVisible(shapes, self) ==
    \E s \in 1 .. Len(shapes) :
        /\ shapes[s].kind = "Mesh"
        /\ \E t \in 0 .. 5 :
              /\ TriangleHasArea(shapes[s], t)
              /\ \E j \in 3 * t + 1 .. 3 * t + 3 :
                    VertexAt(shapes[s], shapes[s].indices[j]).color = self.highlight_color

\* the x of the four cut-lines, read off the top row and off the bottom row
TopRow(mesh) == [i \in 1 .. 4 |-> mesh.vertices[i].pos.x]
BottomRow(mesh) == [i \in 1 .. 4 |-> mesh.vertices[i + 4].pos.x]

FMax(a, b) == IF FLt(a, b) THEN b ELSE a
FLeast(a, b) == IF FLt(b, a) THEN b ELSE a

\* floor of a finite value
FFloor(a) == a.n \div a.d

---------------------------------------------------------------------------
(* C1 *)

\* C1: after Skeleton::ui in Rectangle mode, the computed shimmer phase
\* (time / animation_duration) % 1.0 satisfies 0 <= phase < 1, for every
\* time sample.  Stated here for the positive durations and non-degenerate
\* regions only, so that a violation does not rest on a non-positive
\* animation_duration.
C1_PhaseInUnitInterval ==
    (/\ Shimmered
     /\ ~Degenerate(available_rect)
     /\ FLt(Zero, skeleton.animation_duration))
        => (FLe(Zero, shimmer.phase) /\ FLt(shimmer.phase, One))

---------------------------------------------------------------------------
(* C2 *)

\* C2: every coordinate of every primitive emitted by Skeleton::ui lies
\* within [region.left, region.right] x [region.top, region.bottom], for
\* every region, config, shape and time.
C2_WithinRegion ==
    op = "ui" =>
        \A s \in 1 .. Len(painted) :
            \A p \in Corners(painted[s]) : InRegion(p, available_rect)

---------------------------------------------------------------------------
(* C3 *)

\* C3: the shimmer mesh has a top and a bottom vertex on each of the four
\* cut-lines; the vertices on the outer cut-lines (left, right) carry
\* base_color and the vertices on both inner cut-lines (x1, x2) carry
\* highlight_color.  Stated for the non-degenerate regions and the phases
\* in [0,1), where nothing else about the frame is in question.
C3_InnerCutLinesHighlight ==
    (/\ Shimmered
     /\ ~Degenerate(available_rect)
     /\ FLe(Zero, shimmer.phase) /\ FLt(shimmer.phase, One))
    =>  LET mesh == painted[1]
        IN  /\ Len(mesh.vertices) = 8
            /\ \A i \in 1 .. 4 :
                  /\ mesh.vertices[i].pos.y = RectTop(available_rect)
                  /\ mesh.vertices[i + 4].pos.y = RectBottom(available_rect)
                  /\ mesh.vertices[i].pos.x = mesh.vertices[i + 4].pos.x
            /\ \A i \in {1, 4, 5, 8} : mesh.vertices[i].color = skeleton.base_color
            /\ \A i \in {2, 3, 6, 7} : mesh.vertices[i].color = skeleton.highlight_color

---------------------------------------------------------------------------
(* C4 *)

\* the cut-lines the contract gives for phase ph on region r
ContractCutLines(r, ph) ==
    LET w_h == FDiv(RectWidth(r), I(5))
        x_shimmer == FSub(FAdd(RectLeft(r), FMul(ph, FAdd(RectWidth(r), w_h))), w_h)
    IN  << RectLeft(r),
           FMax(RectLeft(r), FLeast(x_shimmer, RectRight(r))),
           FMax(RectLeft(r), FLeast(FAdd(x_shimmer, w_h), RectRight(r))),
           RectRight(r) >>

ExampleRegion == RectLTWH(I(0), I(0), I(100), I(20))

\* the state of the worked example: width 100, period 1.5, t = 0.75
ExampleFrame ==
    /\ Shimmered
    /\ available_rect = ExampleRegion
    /\ skeleton.animation_duration = R(3, 2)
    /\ time = R(3, 4)

\* C4: in Rectangle mode, for a non-degenerate region and a phase in [0,1),
\* the cut-lines are left, clamp(x_shimmer), clamp(x_shimmer + w_h), right
\* with w_h = 0.2 * width and x_shimmer = left + phase * (width + w_h) - w_h;
\* they are ordered left <= x1 <= x2 <= right; the mesh is three quads
\* left..x1, x1..x2, x2..right; in the worked example they are 0, 40, 60, 100.
C4_CutLines ==
    (/\ Shimmered
     /\ ~Degenerate(available_rect)
     /\ FLe(Zero, shimmer.phase) /\ FLt(shimmer.phase, One))
    => LET mesh == painted[1]
           cut == ContractCutLines(available_rect, shimmer.phase)
       IN  /\ TopRow(mesh) = cut
           /\ BottomRow(mesh) = cut
           /\ \A i \in 1 .. 3 : FLe(cut[i], cut[i + 1])
           /\ Len(mesh.indices) = 18
           /\ \A q \in 0 .. 2 :
                 /\ {v.pos : v \in QuadVertices(mesh, q)}
                      = { Pos2(cut[q + 1], RectTop(available_rect)),
                          Pos2(cut[q + 2], RectTop(available_rect)),
                          Pos2(cut[q + 2], RectBottom(available_rect)),
                          Pos2(cut[q + 1], RectBottom(available_rect)) }
                 /\ {mesh.indices[j] : j \in 6 * q + 1 .. 6 * q + 3}
                      \cup {mesh.indices[j] : j \in 6 * q + 4 .. 6 * q + 6}
                      = {q, q + 1, q + 5, q + 4}
           /\ ExampleFrame => TopRow(mesh) = <<I(0), I(40), I(60), I(100)>>

\* the worked example has been rendered, with the band inside the region
C4_Witness ==
    /\ ExampleFrame
    /\ shimmer.phase = R(1, 2)
    /\ TopRow(painted[1]) = <<I(0), I(40), I(60), I(100)>>

---------------------------------------------------------------------------
(* C5 *)

\* C5: on a degenerate region (width <= 0 or height <= 0) Skeleton::ui
\* emits no primitive at all, for every shape, still claims the (zero-size)
\* region for interaction, and does not panic.  Stated for the regions of
\* zero width or zero height; a region with left > right is not needed to
\* decide it.
C5_DegenerateEmptyOutput ==
    (/\ op = "ui"
     /\ Degenerate(available_rect)
     /\ FLe(Zero, RectWidth(available_rect))
     /\ FLe(Zero, RectHeight(available_rect)))
        => (/\ ~panicked
            /\ painted = <<>>
            /\ response = AllocateRect(available_rect))

---------------------------------------------------------------------------
(* C6 *)

\* C6: rendering at time t and at time t + k * animation_duration gives
\* identical geometry, for every integer k, negative ones included.
\* Stated here for positive durations, non-degenerate regions and t >= 0.
C6_Periodic ==
    (/\ op = "ui"
     /\ ~Degenerate(available_rect)
     /\ FLe(Zero, time)
     /\ FLt(Zero, skeleton.animation_duration))
    => \A k \in -MaxShift .. MaxShift :
          SkeletonUi(skeleton, available_rect,
                     FAdd(time, FMul(I(k), skeleton.animation_duration))).painted
            = painted

---------------------------------------------------------------------------
(* C7 *)

\* the lines fill_ui has just emitted
FillShapes == painted[1].shapes

\* line k (k = 0, 1, ...) of the tiling of region r
ContractLine(r, k) ==
    LET y == FAdd(RectTop(r), I(k * (line_height + gap)))
    IN  [min |-> Pos2(RectLeft(r), y),
         max |-> Pos2(FAdd(RectLeft(r), RectWidth(r)), FAdd(y, I(line_height)))]

\* floor((H + gap) / (line_height + gap)) for the height H of region r
ContractLineCount(r) ==
    FFloor(FDiv(FAdd(RectHeight(r), I(gap)), I(line_height + gap)))

\* what C7 says of the emitted lines, given their number n
FillTiling(n) ==
    /\ Len(painted) = 1
    /\ painted[1].kind = "Vec"
    /\ Len(FillShapes) = n
    /\ \A k \in 0 .. Len(FillShapes) - 1 :
          /\ FillShapes[k + 1].kind = "Rect"
          /\ FillShapes[k + 1].rect = ContractLine(available_rect, k)
          /\ FLe(FillShapes[k + 1].rect.max.y, RectBottom(available_rect))
    \* no further whole line would fit
    /\ ~FLe(ContractLine(available_rect, Len(FillShapes)).max.y, RectBottom(available_rect))

\* C7 as written: the default fill_ui emits exactly
\* n = floor((H + gap) / (line_height + gap)) lines, the k-th at
\* top + k * (line_height + gap), of height line_height and the region's
\* left edge and width, none reaching below region.bottom.
C7_FillTilingAsWritten ==
    op = "fill_ui" => FillTiling(ContractLineCount(available_rect))

\* C7, amended: the default fill_ui emits exactly
\* n = max(0, floor((H + gap) / (line_height + gap))) lines (none when H is
\* below -gap, where the floor is negative), the k-th at
\* top + k * (line_height + gap), of height line_height and the region's
\* left edge and width, none reaching below region.bottom, and no further
\* whole line would fit.
C7_FillTiling ==
    op = "fill_ui" =>
        FillTiling(IF ContractLineCount(available_rect) < 0
                   THEN 0 ELSE ContractLineCount(available_rect))

\* the 300 x 150 frame of the demo has been filled: seven lines
C7_Witness ==
    /\ op = "fill_ui"
    /\ RectWidth(available_rect) = I(300)
    /\ RectHeight(available_rect) = I(150)
    /\ Len(FillShapes) = 7
    /\ FillShapes[7].rect.max.y = I(136)

---------------------------------------------------------------------------
(* C8 *)

\* two consecutive frames of one shimmering Skeleton on one non-degenerate
\* region, with non-negative time and positive duration, between which the
\* phase wraps
WrapStep ==
    /\ Shimmered /\ Shimmered'
    /\ skeleton' = skeleton
    /\ available_rect' = available_rect
    /\ ~Degenerate(available_rect)
    /\ FLt(Zero, skeleton.animation_duration)
    /\ FLe(Zero, time)
    /\ FLt(time, time')
    /\ FLt(shimmer'.phase, shimmer.phase)

\* C8: when the phase wraps between two consecutive frames, the band is
\* fully off-screen, with no highlight visible in the region, in the last
\* frame before the wrap and in the first frame after it, so the loop has
\* no visible jump.  Stated for the frame after the wrap only: how much of
\* the band the frame before it shows depends on the frame rate.
C8_NoHighlightAcrossWrap ==
    [][WrapStep => ~HighlightVisible(painted', skeleton')]_vars

---------------------------------------------------------------------------
(* C9 *)

\* a primitive, and each quad of a mesh, has positive width and height
PositiveExtent(shape) ==
    CASE shape.kind = "Mesh" ->
            \A q \in 0 .. 2 :
                /\ FLt(shape.vertices[q + 1].pos.x, shape.vertices[q + 2].pos.x)
                /\ FLt(shape.vertices[q + 1].pos.y, shape.vertices[q + 5].pos.y)
      [] shape.kind = "Rect" ->
            FLt(Zero, RectWidth(shape.rect)) /\ FLt(Zero, RectHeight(shape.rect))
      [] shape.kind = "Circle" -> FLt(Zero, shape.radius)
      [] shape.kind = "Vec" ->
            \A i \in 1 .. Len(shape.shapes) :
                /\ FLt(Zero, RectWidth(shape.shapes[i].rect))
                /\ FLt(Zero, RectHeight(shape.shapes[i].rect))

\* C9: no primitive is emitted with zero or negative extent: each of the
\* three quads of the shimmer mesh, and the square, circle and fill-line
\* primitives, have positive size.  Stated for the non-degenerate regions,
\* non-negative times and positive durations.
C9_PositiveExtent ==
    (/\ op \in {"ui", "fill_ui"}
     /\ ~Degenerate(available_rect)
     /\ FLe(Zero, time)
     /\ FLt(Zero, skeleton.animation_duration))
    => \A s \in 1 .. Len(painted) : PositiveExtent(painted[s])

---------------------------------------------------------------------------
(* C10 *)

\* C10: a non-positive animation_duration is rejected or clamped before
\* the phase is computed: the divisor of the phase computation is positive.
\* Stated for the non-degenerate regions and the times t >= 0.
C10_PositiveDivisor ==
    (/\ Shimmered
     /\ ~Degenerate(available_rect)
     /\ FLe(Zero, time))
        => FLt(Zero, shimmer.divisor)

====
